---- MODULE Spec2Model ----
(***************************************************************************)
(* Credit decisioning platform: the LendingClub loader                     *)
(* (load_lendingclub.py), the LightGBM trainer (train_lgbm.py), the        *)
(* pipeline orchestrator (train_all.py), the scoring service               *)
(* (app/main.py) and the download step (download_data.py), as state        *)
(* machines.                                                               *)
(*                                                                         *)
(* Text is a sequence of string pieces; Render concatenates them.  Raw     *)
(* numeric cells are written one character per piece so that parsing and   *)
(* formatting are computed digit by digit.  Numbers are held in            *)
(* hundredths (13.56 is 1356).  Probabilities are held in thousandths.     *)
(***************************************************************************)
EXTENDS Integers, Sequences, FiniteSets, TLC

VARIABLES
    raw,        \* data/raw/lending-club/accepted_*.csv: a file of raw rows
    lpc,        \* loader process: "start", "saved", "failed"
    df,         \* value returned by load_and_normalize (sequence of rows)
    loadErr,    \* exception raised by the loader process, or "none"
    processed,  \* data/processed/train.parquet: a file holding a frame
    tpc,        \* trainer process: "start", "persisted", "failed"
    trainErr,   \* exception raised by the trainer process, or "none"
    fitCalled,  \* whether the trainer reached model.fit
    fitCols,    \* name and dtype of each column handed to model.fit
    trained,    \* artifacts/models/lgbm_model.joblib written by the trainer
    feature_names, \* scorer: the bundle's persisted feature list
    features,   \* scorer: req.features, a sequence of <<key, value>> entries
    modelProba, \* scorer: the model's positive-class probability, in 1/1000
    spc,        \* scorer: "received", "responded"
    predictCalled, \* scorer: whether model.predict_proba was called
    Xpassed,    \* scorer: the frame handed to model.predict_proba
    response,   \* scorer: the HTTP response
    opc,        \* orchestrator: "run", "wait", "returned"
    ostep,      \* orchestrator: index of the step being run
    started,    \* orchestrator: the steps started so far, in order
    exits,      \* orchestrator: the exit codes of the steps that ended
    ret,        \* orchestrator: the value main returned
    bundle,     \* service: the model bundle file at MODEL_PATH
    writer,     \* service: version joblib.dump is writing, 0 when idle
    dumps,      \* service: number of dumps started
    reqs,       \* service: the state of each score request
    env,        \* download: LENDINGCLUB_URL and LENDINGCLUB_SHA256 as set
    dest,       \* download: the file at data/raw/<filename>
    part,       \* download: the temporary file <filename>.part
    runs,       \* download: one record per finished run of main, in order
    removed     \* download: how many times the destination was deleted

pipeVars == <<raw, lpc, df, loadErr, processed, tpc, trainErr, fitCalled, fitCols, trained>>
scoreVars == <<feature_names, features, modelProba, spc, predictCalled, Xpassed, response>>
orchVars == <<opc, ostep, started, exits, ret>>
serveVars == <<bundle, writer, dumps, reqs>>
dlVars == <<env, dest, part, runs, removed>>
vars == <<pipeVars, scoreVars, orchVars, serveVars, dlVars>>

\* A file on disk: absent, or present with its content.
Absent == [exists |-> FALSE, data |-> <<>>]
File(data) == [exists |-> TRUE, data |-> data]
NA == "<NA>"

\* pd.NA inside a column of text values.
NAText == <<"<NA>">>

(***************************************************************************)
(* Bounds of the model.                                                    *)
(***************************************************************************)
MaxRows == 2
MaxFeatures == 2

(***************************************************************************)
(* Text helpers.                                                           *)
(***************************************************************************)
RECURSIVE Render(_)
Render(t) == IF t = <<>> THEN "" ELSE Head(t) \o Render(Tail(t))

DigitChars == <<"0", "1", "2", "3", "4", "5", "6", "7", "8", "9">>

IsDigit(c) == \E i \in 1..10 : DigitChars[i] = c

DigitOf(c) == (CHOOSE i \in 1..10 : DigitChars[i] = c) - 1

IsDigits(s) == Len(s) > 0 /\ \A i \in 1..Len(s) : IsDigit(s[i])

RECURSIVE ParseNat(_)
ParseNat(s) ==
    IF s = <<>> THEN 0
    ELSE 10 * ParseNat(SubSeq(s, 1, Len(s) - 1)) + DigitOf(s[Len(s)])

RECURSIVE NatToChars(_)
NatToChars(n) ==
    IF n < 10 THEN <<DigitChars[n + 1]>>
    ELSE NatToChars(n \div 10) \o <<DigitChars[(n % 10) + 1]>>

NumVal(v) == [kind |-> "num", v |-> v]
NaNVal == [kind |-> "nan", v |-> 0]
ErrVal == [kind |-> "err", v |-> 0]

\* Tokens pandas reads as missing (a subset of read_csv's default na_values).
NaStrings == {"", "nan", "NaN", "NA", "N/A", "null", "NULL"}

\* str -> float as the csv parser and pd.to_numeric do it: decimal digits with
\* an optional fraction (at most two fractional digits occur in the model).
ParseFloatText(s) ==
    LET dots == {i \in 1..Len(s) : s[i] = "."}
    IN  IF dots = {} THEN
            IF IsDigits(s) THEN NumVal(100 * ParseNat(s)) ELSE ErrVal
        ELSE IF Cardinality(dots) = 1 THEN
            LET k == CHOOSE i \in dots : TRUE
                ip == SubSeq(s, 1, k - 1)
                fp == SubSeq(s, k + 1, Len(s))
            IN  IF IsDigits(ip) /\ IsDigits(fp) /\ Len(fp) <= 2 THEN
                    NumVal(100 * ParseNat(ip)
                           + (IF Len(fp) = 1 THEN 10 * ParseNat(fp) ELSE ParseNat(fp)))
                ELSE ErrVal
        ELSE ErrVal

\* read_csv with dtype float32: a missing token is NaN, a decimal is its
\* value, anything else makes read_csv raise ValueError.
ReadFloat32(cell) ==
    IF Render(cell) \in NaStrings THEN NaNVal ELSE ParseFloatText(cell)

\* read_csv with dtype "category" / "string": a missing token is NA.
ReadCategory(cell) == IF cell \in NaStrings THEN NA ELSE cell

\* Series.astype(str) on a float column: shortest decimal repr, "nan" for NaN.
FloatToStr(x) ==
    IF x.kind = "nan" THEN <<"n", "a", "n">>
    ELSE LET ip == x.v \div 100
             fr == x.v % 100
         IN  NatToChars(ip) \o <<".">> \o
             (IF fr % 10 = 0 THEN <<DigitChars[(fr \div 10) + 1]>>
              ELSE <<DigitChars[(fr \div 10) + 1], DigitChars[(fr % 10) + 1]>>)

\* Series.astype(str) on a categorical column: NaN becomes "nan".
CategoryToStr(c) == IF c = NA THEN "nan" ELSE c

\* str.replace("%", "", regex=False)
RECURSIVE StripPercent(_)
StripPercent(s) ==
    IF s = <<>> THEN <<>>
    ELSE IF Head(s) = "%" THEN StripPercent(Tail(s))
    ELSE <<Head(s)>> \o StripPercent(Tail(s))

\* pd.to_numeric(errors="coerce") on strings with pd.NA for missing.
ToNumericCoerce(s) ==
    IF s = NAText THEN NaNVal
    ELSE LET p == ParseFloatText(s) IN IF p.kind = "err" THEN NaNVal ELSE p

\* The percent clean-up of one value of int_rate / revol_util.
NormalizePercent(x) ==
    LET s1 == StripPercent(FloatToStr(x))
        s2 == IF Render(s1) = "nan" THEN NAText ELSE s1
    IN  ToNumericCoerce(s2)

(***************************************************************************)
(* Issue dates.                                                            *)
(***************************************************************************)
MonthNum ==
    [m \in {"Jan", "Feb", "Mar", "Apr", "May", "Jun",
            "Jul", "Aug", "Sep", "Oct", "Nov", "Dec"} |->
        CASE m = "Jan" -> "01" [] m = "Feb" -> "02" [] m = "Mar" -> "03"
          [] m = "Apr" -> "04" [] m = "May" -> "05" [] m = "Jun" -> "06"
          [] m = "Jul" -> "07" [] m = "Aug" -> "08" [] m = "Sep" -> "09"
          [] m = "Oct" -> "10" [] m = "Nov" -> "11" [] m = "Dec" -> "12"]

NaT == [ok |-> FALSE, y |-> "", m |-> ""]

\* pd.to_datetime(format="%b-%Y", errors="coerce") on one cell: pieces are
\* <<month, "-", year>>; %Y needs four digits.
ToDatetime(cell) ==
    IF Render(cell) \in NaStrings THEN NaT
    ELSE IF /\ Len(cell) = 3
            /\ cell[1] \in DOMAIN MonthNum
            /\ cell[2] = "-"
            /\ cell[3] \in {"2015", "2016"}
         THEN [ok |-> TRUE, y |-> cell[3], m |-> MonthNum[cell[1]]]
         ELSE NaT

\* .dt.to_period("M").astype(str), as text pieces: <<"2015", "-", "12">>
ToPeriodStr(d) == IF d.ok THEN <<d.y, "-", d.m>> ELSE <<"NaT">>

\* pd.to_datetime on a column that already holds datetimes keeps each value.
ToDatetimeOfDatetime(d) == d

(***************************************************************************)
(* build_target                                                            *)
(***************************************************************************)
bad_statuses ==
    {"Charged Off", "Default", "Late (31-120 days)", "Late (16-30 days)",
     "Does not meet the credit policy. Status:Charged Off"}

good_statuses ==
    {"Fully Paid", "Does not meet the credit policy. Status:Fully Paid"}

\* A nullable Int64 value.
Int64NA == [na |-> TRUE, v |-> 0]
Int64Of(n) == [na |-> FALSE, v |-> n]

\* Variant: the late statuses get a severity code of their own.
build_target_severity(loan_status) ==
    LET status == CategoryToStr(loan_status)
        t0 == Int64NA
        t1 == IF status \in bad_statuses
              THEN (IF status \in {"Late (31-120 days)", "Late (16-30 days)"}
                    THEN Int64Of(2) ELSE Int64Of(1))
              ELSE t0
        t2 == IF status \in good_statuses THEN Int64Of(0) ELSE t1
    IN  t2

\* Variant: a status outside both sets is defaulted to the good class.
build_target_default(loan_status) ==
    LET status == CategoryToStr(loan_status)
    IN  IF status \in bad_statuses THEN Int64Of(1) ELSE Int64Of(0)

build_target(loan_status) ==
    LET status == CategoryToStr(loan_status)
        t0 == Int64NA
        t1 == IF status \in bad_statuses THEN Int64Of(1) ELSE t0
        t2 == IF status \in good_statuses THEN Int64Of(0) ELSE t1
    IN  t2

\* Series.astype(int) on a nullable Int64 value that is not NA.
AsTypeInt(t) == t.v

(***************************************************************************)
(* load_and_normalize                                                      *)
(***************************************************************************)
\* pd.read_csv(usecols=USECOLS, dtype=DTYPES): every cell is converted to
\* its column's dtype; src is the row's position in the file.
ReadCsvRow(r, i) ==
    [src |-> i,
     issue_d |-> r.issue_d,
     loan_status |-> ReadCategory(r.loan_status),
     int_rate |-> ReadFloat32(r.int_rate),
     revol_util |-> ReadFloat32(r.revol_util)]

ReadCsv(file) == [i \in 1..Len(file) |-> ReadCsvRow(file[i], i)]

ReadCsvRaises(file) ==
    \E i \in 1..Len(file) :
        \/ ReadFloat32(file[i].int_rate).kind = "err"
        \/ ReadFloat32(file[i].revol_util).kind = "err"

\* The chunk loop: parse issue_d, drop rows whose date is NaT, add the month.
ParseChunkRow(r) ==
    [r EXCEPT !.issue_d = ToDatetime(r.issue_d)]

HasIssueDate(r) == r.issue_d.ok

AddIssueMonth(r) ==
    [src |-> r.src, issue_d |-> r.issue_d, loan_status |-> r.loan_status,
     int_rate |-> r.int_rate, revol_util |-> r.revol_util,
     issue_month |-> ToPeriodStr(r.issue_d)]

ParseChunk(rows) == [i \in 1..Len(rows) |-> ParseChunkRow(rows[i])]

AddIssueMonths(rows) == [i \in 1..Len(rows) |-> AddIssueMonth(rows[i])]

ReadChunks(file) ==
    AddIssueMonths(SelectSeq(ParseChunk(ReadCsv(file)), HasIssueDate))

\* Lines 155-160: parse and drop again on the concatenated frame.
ReparseRow(r) ==
    [r EXCEPT !.issue_d = ToDatetimeOfDatetime(r.issue_d),
              !.issue_month = ToPeriodStr(ToDatetimeOfDatetime(r.issue_d))]

ReparseRows(rows) == [i \in 1..Len(rows) |-> ReparseRow(rows[i])]

Reparse(rows) == ReparseRows(SelectSeq(ReparseRows(rows), HasIssueDate))

\* Lines 162-165: label, drop unlabelled rows.
AddTarget(r) ==
    [src |-> r.src, issue_d |-> r.issue_d, loan_status |-> r.loan_status,
     int_rate |-> r.int_rate, revol_util |-> r.revol_util,
     issue_month |-> r.issue_month, target |-> build_target(r.loan_status)]

HasTarget(r) == ~r.target.na

TargetAsInt(r) == [r EXCEPT !.target = AsTypeInt(r.target)]

\* Lines 167-171 and 195-197: percent clean-up, then drop loan_status.
CleanRow(r) ==
    [src |-> r.src, issue_d |-> r.issue_d,
     int_rate |-> NormalizePercent(r.int_rate),
     revol_util |-> NormalizePercent(r.revol_util),
     issue_month |-> r.issue_month, target |-> r.target]

AddTargets(rows) == [i \in 1..Len(rows) |-> AddTarget(rows[i])]

TargetsAsInt(rows) == [i \in 1..Len(rows) |-> TargetAsInt(rows[i])]

CleanRows(rows) == [i \in 1..Len(rows) |-> CleanRow(rows[i])]

Labelled(file) ==
    CleanRows(TargetsAsInt(SelectSeq(AddTargets(Reparse(ReadChunks(file))), HasTarget)))

NotNaCount(rows) == Cardinality({i \in 1..Len(rows) : rows[i].issue_d.ok})

\* Lines 203-207: parse_rate = mean of notna over the frame; the mean of an
\* empty frame is NaN and NaN < 0.95 is false.
ParseRateTooLow(rows) ==
    /\ Len(rows) > 0
    /\ 100 * NotNaCount(rows) < 95 * Len(rows)

\* Result of load_and_normalize: the exception it raises ("none" if it
\* returns) and the frame it returns.
load_and_normalize(file) ==
    IF ~file.exists THEN [err |-> "FileNotFoundError", df |-> <<>>]
    ELSE IF ReadCsvRaises(file.data) THEN [err |-> "ValueError:read_csv", df |-> <<>>]
    ELSE LET rows == ReparseRows(Labelled(file.data))
         IN  IF ParseRateTooLow(rows)
             THEN [err |-> "ValueError:parse_rate", df |-> <<>>]
             ELSE [err |-> "none", df |-> rows]

(***************************************************************************)
(* Data frames as sequences of columns, and the trainer's encoding.        *)
(***************************************************************************)
Column(name, dtype, vals) == [name |-> name, dtype |-> dtype, vals |-> vals]

\* to_parquet / read_parquet of the loader's frame: its columns, in order.
ToFrame(rows) ==
    <<Column(<<"issue_d">>, "datetime64", [i \in 1..Len(rows) |-> rows[i].issue_d]),
      Column(<<"int_rate">>, "float64", [i \in 1..Len(rows) |-> rows[i].int_rate]),
      Column(<<"revol_util">>, "float64", [i \in 1..Len(rows) |-> rows[i].revol_util]),
      Column(<<"issue_month">>, "object", [i \in 1..Len(rows) |-> rows[i].issue_month]),
      Column(<<"target">>, "int64", [i \in 1..Len(rows) |-> rows[i].target])>>

ColumnNames(frame) == [i \in 1..Len(frame) |-> Render(frame[i].name)]

HasColumn(frame, name) == \E i \in 1..Len(frame) : Render(frame[i].name) = name

IsNotTarget(c) == Render(c.name) # "target"

\* df.drop(columns=["target"])
DropTarget(frame) == SelectSeq(frame, IsNotTarget)

\* dtypes pd.get_dummies encodes when no columns are named.
EncodedDtypes == {"object", "string", "category"}

IsEncoded(c) == c.dtype \in EncodedDtypes
IsKept(c) == c.dtype \notin EncodedDtypes

\* The text values that occur as levels, in Python's string order.
LevelOrder ==
    << <<"10", "+", " ", "years">>, <<"2015", "-", "12">>, <<"2016", "-", "01">>,
       <<"<", " ", "1", " ", "year">>, <<"A">>, <<"B">>,
       <<"Source", " ", "Verified">>, <<"Verified">> >>

SortedLevels(S) == SelectSeq(LevelOrder, LAMBDA t : t \in S)

Levels(col) == SortedLevels({col.vals[i] : i \in 1..Len(col.vals)} \ {NAText})

\* One indicator column per level, then the dummy_na=True column.
Dummies(col) ==
    LET lv == Levels(col)
        n == Len(col.vals)
    IN  [k \in 1..Len(lv) |->
            Column(col.name \o <<"_">> \o lv[k], "bool",
                   [i \in 1..n |-> IF col.vals[i] = lv[k] THEN 1 ELSE 0])]
        \o <<Column(col.name \o <<"_", "nan">>, "bool",
                    [i \in 1..n |-> IF col.vals[i] = NAText THEN 1 ELSE 0])>>

RECURSIVE ConcatDummies(_)
ConcatDummies(cols) ==
    IF cols = <<>> THEN <<>> ELSE Dummies(Head(cols)) \o ConcatDummies(Tail(cols))

\* pd.get_dummies(X, dummy_na=True): the columns that are not encoded, in
\* order, followed by the indicator columns of each encoded column.
get_dummies(frame) ==
    SelectSeq(frame, IsKept) \o ConcatDummies(SelectSeq(frame, IsEncoded))

\* Characters outside [0-9a-zA-Z_]; every other piece is a safe run.
UnsafeChars == {" ", "-", "+", "<", ">", "%", ".", ":", "(", ")", "/"}

\* re.sub(r"[^0-9a-zA-Z_]+", "_", str(c)): each maximal run of unsafe
\* characters becomes one underscore.
RECURSIVE SanitizeFrom(_, _)
SanitizeFrom(t, inRun) ==
    IF t = <<>> THEN ""
    ELSE IF Head(t) \in UnsafeChars
         THEN (IF inRun THEN "" ELSE "_") \o SanitizeFrom(Tail(t), TRUE)
         ELSE Head(t) \o SanitizeFrom(Tail(t), FALSE)

SanitizeName(name) == <<SanitizeFrom(name, FALSE)>>

sanitize_feature_names(frame) ==
    [i \in 1..Len(frame) |-> [frame[i] EXCEPT !.name = SanitizeName(frame[i].name)]]

\* X.loc[:, ~X.columns.duplicated()]: keep the first column of each name.
DropDuplicated(frame) ==
    LET first(i) == \A j \in 1..(i - 1) : Render(frame[j].name) # Render(frame[i].name)
        keep == {i \in 1..Len(frame) : first(i)}
        F[i \in 0..Len(frame)] ==
            IF i = 0 THEN <<>>
            ELSE IF i \in keep THEN Append(F[i - 1], frame[i]) ELSE F[i - 1]
    IN  F[Len(frame)]

\* Lines 65-67 of the trainer.
TrainEncode(frame) == DropDuplicated(sanitize_feature_names(get_dummies(frame)))

\* dtypes LightGBM accepts in a pandas frame; fit raises ValueError on others.
FitDtypes == {"int64", "float64", "float32", "bool"}

FitRaises(frame) == \E i \in 1..Len(frame) : frame[i].dtype \notin FitDtypes

Schema(frame) == [i \in 1..Len(frame) |-> [name |-> Render(frame[i].name), dtype |-> frame[i].dtype]]

\* train_test_split(test_size=0.2, stratify=y): raises ValueError when a
\* class has fewer than 2 members or a side would hold fewer rows than classes.
SplitRaises(y) ==
    LET n == Len(y)
        classes == {y[i] : i \in 1..n}
        count(c) == Cardinality({i \in 1..n : y[i] = c})
        nTest == (2 * n + 9) \div 10
    IN  \/ n = 0
        \/ \E c \in classes : count(c) < 2
        \/ nTest < Cardinality(classes)
        \/ n - nTest < Cardinality(classes)

(***************************************************************************)
(* The scoring handler.                                                    *)
(***************************************************************************)
NumValue(n) == [kind |-> "num", v |-> n, t |-> <<>>]
StrValue(t) == [kind |-> "str", v |-> 0, t |-> t]
NoneValue == [kind |-> "none", v |-> 0, t |-> <<>>]

\* pd.DataFrame([req.features]): one column per key, in the mapping's
\* order; a number gives a numeric column, a string or None an object one.
RecordColumn(e) ==
    IF e.val.kind = "num" THEN Column(e.key, "float64", <<e.val.v>>)
    ELSE IF e.val.kind = "str" THEN Column(e.key, "object", <<e.val.t>>)
    ELSE Column(e.key, "object", <<NAText>>)

DataFrameOfRecord(rec) == [i \in 1..Len(rec) |-> RecordColumn(rec[i])]

\* Lines 54-56: append a zero column for each persisted name not yet present.
RECURSIVE AddMissing(_, _)
AddMissing(frame, names) ==
    IF names = <<>> THEN frame
    ELSE IF HasColumn(frame, Head(names))
         THEN AddMissing(frame, Tail(names))
         ELSE AddMissing(Append(frame, Column(<<Head(names)>>, "int64", <<0>>)),
                         Tail(names))

\* frame[name]: every column carrying that label, in the frame's order.
ColumnsNamed(frame, name) == SelectSeq(frame, LAMBDA c : Render(c.name) = name)

\* Line 57, X[feature_names]: label by label, all columns with the label.
RECURSIVE SelectColumns(_, _)
SelectColumns(frame, names) ==
    IF names = <<>> THEN <<>>
    ELSE ColumnsNamed(frame, Head(names)) \o SelectColumns(frame, Tail(names))

\* Lines 53-57.
AlignColumns(frame, names) == SelectColumns(AddMissing(frame, names), names)

\* Variant: the boundaries belong to the lower tier.
Decide_inclusive(p) ==
    IF p <= 30 THEN "approve" ELSE IF p <= 80 THEN "review" ELSE "reject"

\* Lines 62-67, with the probability in thousandths.
Decide(p) ==
    IF p < 30 THEN "approve" ELSE IF p < 80 THEN "review" ELSE "reject"

OkResponse(p) == [status |-> 200, pd |-> p, decision |-> Decide(p), detail |-> "baseline_policy"]

\* Feature tables the persisted lists of the model come from.
TrainTables ==
    { << Column(<<"dti">>, "float64", <<1500, 2000>>),
         Column(<<"grade">>, "object", << <<"A">>, <<"B">> >>) >>,
      << Column(<<"grade">>, "object", << <<"A">>, <<"A">> >>),
         Column(<<"verification_status">>, "object",
                << <<"Source", " ", "Verified">>, <<"Verified">> >>) >>,
      << Column(<<"dti">>, "float64", <<1500, 2000>>),
         Column(<<"emp_length">>, "object",
                << <<"10", "+", " ", "years">>, <<"<", " ", "1", " ", "year">> >>) >> }

\* joblib.dump({"model": model, "feature_names": list(X.columns)}).
PersistedLists == {ColumnNames(TrainEncode(t)) : t \in TrainTables}

RequestKeys == {<<"dti">>, <<"grade">>, <<"verification_status">>, <<"grade_A">>}

RequestValues ==
    {NumValue(1500), StrValue(<<"A">>), StrValue(<<"Source", " ", "Verified">>), NoneValue}

Entry(k, v) == [key |-> k, val |-> v]

\* Mappings of at most MaxFeatures keys (a mapping's keys are distinct).
Requests ==
    UNION {{r \in [1..n -> {Entry(k, v) : k \in RequestKeys, v \in RequestValues}] :
                \A i, j \in 1..n : i # j => r[i].key # r[j].key} : n \in 0..MaxFeatures}

Probas == {0, 29, 30, 31, 55, 79, 80, 81, 1000}

ErrResponse(detail) == [status |-> 500, pd |-> 0, decision |-> "none", detail |-> detail]

\* POST /score with the bundle on disk.  pd.get_dummies of a frame without
\* columns concatenates nothing: it raises or returns the frame, depending
\* on the pandas release.  predict_proba raises when the frame's columns
\* are not the model's features.
Score ==
    /\ spc = "received"
    /\ spc' = "responded"
    /\ \E emptyRaises \in (IF features = <<>> THEN BOOLEAN ELSE {FALSE}) :
          IF emptyRaises THEN
              /\ response' = ErrResponse("Internal Server Error")
              /\ UNCHANGED <<predictCalled, Xpassed>>
          ELSE LET X == AlignColumns(get_dummies(DataFrameOfRecord(features)),
                                     feature_names)
               IN  /\ predictCalled' = TRUE
                   /\ Xpassed' = X
                   /\ response' = IF Len(X) = Len(feature_names)
                                  THEN OkResponse(modelProba)
                                  ELSE ErrResponse("Internal Server Error")
    /\ UNCHANGED <<feature_names, features, modelProba>>
    /\ UNCHANGED <<pipeVars, orchVars, serveVars, dlVars>>

(***************************************************************************)
(* Raw files of the model.                                                 *)
(***************************************************************************)
DecCell == <<"Dec", "-", "2015">>
RateCell == <<"1", "3", ".", "5", "6">>
EmptyCell == <<>>

IssueCells ==
    {DecCell, <<"Jan", "-", "2016">>, <<"2015", "-", "12">>, <<"Dec", "-", "15">>, EmptyCell}

StatusCells ==
    bad_statuses \cup good_statuses \cup {"Current", "In Grace Period", ""}

RateCells ==
    {RateCell, <<"1", "3", ".", "5", "6", "%">>, <<"7", ".", "5", "%">>,
     <<"n", "a", "n">>, EmptyCell}

RawRow(d, st, ir, ru) ==
    [issue_d |-> d, loan_status |-> st, int_rate |-> ir, revol_util |-> ru]

\* Every status with a parseable and an unparseable date; every date cell;
\* every rate cell in either percentage column.
RawRows ==
    {RawRow(d, st, RateCell, EmptyCell) :
        d \in {DecCell, <<"2015", "-", "12">>}, st \in StatusCells}
    \cup {RawRow(d, "Fully Paid", RateCell, EmptyCell) : d \in IssueCells}
    \cup {RawRow(DecCell, "Charged Off", ir, EmptyCell) : ir \in RateCells}
    \cup {RawRow(DecCell, "Fully Paid", RateCell, ru) : ru \in RateCells}

(***************************************************************************)
(* The loader and trainer processes.                                       *)
(***************************************************************************)
\* load_lendingclub.main: load_and_normalize, then save_processed.
LoaderMain ==
    /\ lpc = "start"
    /\ LET r == load_and_normalize(raw)
       IN  IF r.err # "none"
           THEN /\ lpc' = "failed"
                /\ loadErr' = r.err
                /\ UNCHANGED <<df, processed>>
           ELSE /\ lpc' = "saved"
                /\ df' = r.df
                /\ processed' = File(ToFrame(r.df))
                /\ UNCHANGED loadErr
    /\ UNCHANGED <<raw, tpc, trainErr, fitCalled, fitCols, trained>>
    /\ UNCHANGED <<scoreVars, orchVars, serveVars, dlVars>>

TargetOf(frame) ==
    LET k == CHOOSE i \in 1..Len(frame) : Render(frame[i].name) = "target"
    IN  frame[k].vals

\* train_lgbm.main up to joblib.dump.
TrainerMain ==
    /\ tpc = "start"
    /\ IF ~processed.exists THEN
            /\ tpc' = "failed"
            /\ trainErr' = "FileNotFoundError"
            /\ UNCHANGED <<fitCalled, fitCols, trained>>
       ELSE IF ~HasColumn(processed.data, "target") THEN
            /\ tpc' = "failed"
            /\ trainErr' = "ValueError:target"
            /\ UNCHANGED <<fitCalled, fitCols, trained>>
       ELSE LET y == TargetOf(processed.data)
                X == TrainEncode(DropTarget(processed.data))
            IN  IF SplitRaises(y) THEN
                    /\ tpc' = "failed"
                    /\ trainErr' = "ValueError:split"
                    /\ UNCHANGED <<fitCalled, fitCols, trained>>
                ELSE IF FitRaises(X) THEN
                    /\ tpc' = "failed"
                    /\ trainErr' = "ValueError:fit"
                    /\ fitCalled' = TRUE
                    /\ fitCols' = Schema(X)
                    /\ UNCHANGED trained
                ELSE
                    /\ tpc' = "persisted"
                    /\ fitCalled' = TRUE
                    /\ fitCols' = Schema(X)
                    /\ trained' = File(ColumnNames(X))
                    /\ UNCHANGED trainErr
    /\ UNCHANGED <<raw, lpc, df, loadErr, processed>>
    /\ UNCHANGED <<scoreVars, orchVars, serveVars, dlVars>>

(***************************************************************************)
(* train_all.main                                                          *)
(***************************************************************************)
Steps == <<"load_lendingclub", "data_quality", "train_lgbm">>

MaxExitCode == 32
MaxSignal == 3

\* A child's returncode: its exit status, or minus the signal that ended it.
ExitCodes == (0 - MaxSignal)..MaxExitCode

\* Variant: only positive exit statuses count as failure.
StepFailed_positive(code) == code > 0

\* subprocess.run(cmd, check=True) raises CalledProcessError on any
\* non-zero returncode.
StepFailed(code) == code # 0

\* run(): the child process of the current step is started.
StartStep ==
    /\ opc = "run"
    /\ started' = Append(started, Steps[ostep])
    /\ opc' = "wait"
    /\ UNCHANGED <<ostep, exits, ret>>
    /\ UNCHANGED <<pipeVars, scoreVars, serveVars, dlVars>>

\* The child ends: CalledProcessError makes main return e.returncode; after
\* the last step main returns 0; otherwise the next run() follows.
StepExits ==
    /\ opc = "wait"
    /\ \E code \in ExitCodes :
          /\ exits' = Append(exits, code)
          /\ IF StepFailed(code) THEN
                 /\ opc' = "returned"
                 /\ ret' = code
                 /\ UNCHANGED ostep
             ELSE IF ostep = Len(Steps) THEN
                 /\ opc' = "returned"
                 /\ ret' = 0
                 /\ UNCHANGED ostep
             ELSE
                 /\ opc' = "run"
                 /\ ostep' = ostep + 1
                 /\ UNCHANGED ret
    /\ UNCHANGED started
    /\ UNCHANGED <<pipeVars, scoreVars, serveVars, dlVars>>

(***************************************************************************)
(* The service and the bundle file.                                        *)
(***************************************************************************)
MaxRequests == 2
MaxDumps == 2

NoBundle == [exists |-> FALSE, complete |-> FALSE, ver |-> 0]

Remediation == "Model not found. Run: python scripts/train_all.py"
Errno2 == "[Errno 2] No such file or directory"
Internal == "Internal Server Error"

NewRequest ==
    [pc |-> "idle", existsAtCheck |-> FALSE, atLoad |-> NoBundle,
     status |-> 0, detail |-> "none", loaded |-> 0]

\* joblib.dump opens MODEL_PATH for writing: the file exists, truncated.
DumpStart ==
    /\ writer = 0
    /\ dumps < MaxDumps
    /\ dumps' = dumps + 1
    /\ writer' = dumps + 1
    /\ bundle' = [exists |-> TRUE, complete |-> FALSE, ver |-> dumps + 1]
    /\ UNCHANGED reqs
    /\ UNCHANGED <<pipeVars, scoreVars, orchVars, dlVars>>

\* joblib.dump finishes; a file unlinked meanwhile stays absent.
DumpFinish ==
    /\ writer # 0
    /\ writer' = 0
    /\ bundle' = IF bundle.exists /\ bundle.ver = writer
                 THEN [bundle EXCEPT !.complete = TRUE]
                 ELSE bundle
    /\ UNCHANGED <<dumps, reqs>>
    /\ UNCHANGED <<pipeVars, scoreVars, orchVars, dlVars>>

\* The bundle file is removed.
DeleteBundle ==
    /\ bundle.exists
    /\ bundle' = NoBundle
    /\ UNCHANGED <<writer, dumps, reqs>>
    /\ UNCHANGED <<pipeVars, scoreVars, orchVars, dlVars>>

\* Variant: a bundle that is still being written counts as missing.
BundleExists_complete(b) == b.exists /\ b.complete

\* MODEL_PATH.exists()
BundleExists(b) == b.exists

\* A request reaches load_model's existence check; when the file is missing
\* the handler answers 500 with the remediation message.
ReqCheck(r) ==
    /\ reqs[r].pc = "idle"
    /\ IF BundleExists(bundle)
       THEN reqs' = [reqs EXCEPT ![r].pc = "loading",
                                 ![r].existsAtCheck = bundle.exists]
       ELSE reqs' = [reqs EXCEPT ![r].pc = "done",
                                 ![r].existsAtCheck = bundle.exists,
                                 ![r].status = 500,
                                 ![r].detail = Remediation]
    /\ UNCHANGED <<bundle, writer, dumps>>
    /\ UNCHANGED <<pipeVars, scoreVars, orchVars, dlVars>>

\* joblib.load(MODEL_PATH) and the rest of the handler: a missing file
\* raises FileNotFoundError (answered 500 with the OS message), a truncated
\* file raises another exception (an unhandled 500), a complete file is
\* loaded and scores the record, unless the encoding or predict_proba
\* raises on that record (an unhandled 500).
ReqLoad(r) ==
    /\ reqs[r].pc = "loading"
    /\ \E recordOk \in BOOLEAN :
          reqs' = [reqs EXCEPT
              ![r].pc = "done",
              ![r].atLoad = bundle,
              ![r].status = IF bundle.exists /\ bundle.complete /\ recordOk
                            THEN 200 ELSE 500,
              ![r].detail = IF ~bundle.exists THEN Errno2
                            ELSE IF ~bundle.complete \/ ~recordOk THEN Internal
                            ELSE "baseline_policy",
              ![r].loaded = IF bundle.exists /\ bundle.complete THEN bundle.ver ELSE 0]
    /\ UNCHANGED <<bundle, writer, dumps>>
    /\ UNCHANGED <<pipeVars, scoreVars, orchVars, dlVars>>

(***************************************************************************)
(* The download step (scripts/download_data.py).                           *)
(***************************************************************************)
MaxRuns == 3
MaxRemovals == 1

\* A path on disk: nothing there, a regular file with its content, or a
\* directory.
NoFile == [kind |-> "absent", content |-> ""]
Regular(c) == [kind |-> "file", content |-> c]
Directory == [kind |-> "dir", content |-> ""]

\* Bodies a file can hold: the published dataset, some other complete body,
\* and a body cut short.
Contents == {"dataset", "corrupt", "partial"}

\* str.strip() on a text held one character per piece.
RECURSIVE LStrip(_)
LStrip(s) == IF s # <<>> /\ Head(s) = " " THEN LStrip(Tail(s)) ELSE s

RECURSIVE RStrip(_)
RStrip(s) ==
    IF s # <<>> /\ s[Len(s)] = " " THEN RStrip(SubSeq(s, 1, Len(s) - 1)) ELSE s

StripSpaces(s) == RStrip(LStrip(s))

\* str.lower() on the hexadecimal alphabet.
LowerChar(c) ==
    CASE c = "A" -> "a" [] c = "B" -> "b" [] c = "C" -> "c"
      [] c = "D" -> "d" [] c = "E" -> "e" [] c = "F" -> "f"
      [] OTHER -> c

LowerText(s) == [i \in 1..Len(s) |-> LowerChar(s[i])]

\* sha256_file: the lower-case hex digest of a file's bytes (shortened to
\* two characters); distinct bodies have distinct digests.
sha256_file(f) ==
    CASE f.content = "dataset" -> <<"a", "1">>
      [] f.content = "corrupt" -> <<"b", "2">>
      [] f.content = "partial" -> <<"c", "3">>

\* Values of LENDINGCLUB_URL: unset, blank, and URLs whose first piece is
\* the scheme and host and whose other pieces are the path.
UrlValues ==
    { <<>>,
      <<" ">>,
      <<"https://host">>,
      <<"https://host", "/", "lc.zip">>,
      <<" ", "https://host", "/", "files", "/", " ">> }

\* Values of LENDINGCLUB_SHA256: unset, blank, the dataset's digest in lower
\* case, the same in upper case with blanks around it, another body's
\* digest, and a digest of no body.
ShaValues ==
    { <<>>,
      <<" ">>,
      <<"a", "1">>,
      <<" ", "A", "1", " ">>,
      <<"b", "2">>,
      <<"f", "f">> }

\* urlparse(url).path
UrlPath(url) == IF url = <<>> THEN <<>> ELSE Tail(url)

\* Path(p).name: the last component, trailing separators ignored.
RECURSIVE PathName(_)
PathName(p) ==
    IF p = <<>> THEN ""
    ELSE IF p[Len(p)] = "/" THEN PathName(SubSeq(p, 1, Len(p) - 1))
    ELSE p[Len(p)]

Filename(url) ==
    IF PathName(UrlPath(url)) = "" THEN "lendingclub_download"
    ELSE PathName(UrlPath(url))

\* What the server and the local disk do to one download attempt:
\* a complete response with some body; a requests exception before any byte
\* is written; a requests exception while streaming; an OSError while
\* writing the temporary file.
Outcomes ==
    {[kind |-> "ok", body |-> c] : c \in Contents}
    \cup {[kind |-> "refused", body |-> ""],
          [kind |-> "broken", body |-> "partial"],
          [kind |-> "oserror", body |-> "partial"]}

\* download_file: the body is streamed into <dest>.part, which then
\* replaces dest; an exception leaves dest as it was.
download_file(o, d, p) ==
    CASE o.kind = "ok" ->
           [raised |-> "none", dest |-> Regular(o.body), part |-> NoFile]
      [] o.kind = "refused" ->
           [raised |-> "RequestException", dest |-> d, part |-> p]
      [] o.kind = "broken" ->
           [raised |-> "RequestException", dest |-> d, part |-> Regular(o.body)]
      [] o.kind = "oserror" ->
           [raised |-> "OSError", dest |-> d, part |-> Regular(o.body)]

\* Variant: a file that is already there is accepted without hashing it.
ExistingCode_trusting(expected, d) == 0

\* main, destination already present: with an expected digest the file is
\* hashed (hashing a directory raises, the interpreter exits 1) and a
\* different digest returns 3; otherwise 0.
ExistingCode(expected, d) ==
    IF expected = <<>> THEN 0
    ELSE IF d.kind = "dir" THEN 1
    ELSE IF sha256_file(d) # expected THEN 3
    ELSE 0

\* main, after download_file returned: a different digest returns 5.
DownloadedCode(expected, d) ==
    IF expected # <<>> /\ sha256_file(d) # expected THEN 5 ELSE 0

\* main(): the exit code and the disk it leaves.
main(e, d, p, o) ==
    LET url == StripSpaces(e.url)
        expected_sha == LowerText(StripSpaces(e.sha))
        got == download_file(o, d, p)
    IN  IF url = <<>>
        THEN [code |-> 2, dest |-> d, part |-> p, fetched |-> FALSE]
        ELSE IF d.kind # "absent"
        THEN [code |-> ExistingCode(expected_sha, d),
              dest |-> d, part |-> p, fetched |-> FALSE]
        ELSE IF got.raised = "RequestException"
        THEN [code |-> 4, dest |-> got.dest, part |-> got.part, fetched |-> FALSE]
        ELSE IF got.raised = "OSError"
        THEN [code |-> 1, dest |-> got.dest, part |-> got.part, fetched |-> FALSE]
        ELSE [code |-> DownloadedCode(expected_sha, got.dest),
              dest |-> got.dest, part |-> got.part, fetched |-> TRUE]

\* One run of the download step, from start to exit.
DownloadMain ==
    /\ Len(runs) < MaxRuns
    /\ \E o \in Outcomes :
         LET r == main(env, dest, part, o)
         IN  /\ dest' = r.dest
             /\ part' = r.part
             /\ runs' = Append(runs,
                    [code |-> r.code, name |-> Filename(StripSpaces(env.url)),
                     before |-> dest, after |-> r.dest,
                     fetched |-> r.fetched, removals |-> removed])
    /\ UNCHANGED <<env, removed>>
    /\ UNCHANGED <<pipeVars, scoreVars, orchVars, serveVars>>

\* The operator deletes the destination file between two runs.
RemoveFile ==
    /\ removed < MaxRemovals
    /\ dest.kind = "file"
    /\ dest' = NoFile
    /\ removed' = removed + 1
    /\ UNCHANGED <<env, part, runs>>
    /\ UNCHANGED <<pipeVars, scoreVars, orchVars, serveVars>>

(***************************************************************************)
(* Specifications.                                                         *)
(***************************************************************************)
\* a raw file is in place; the loader and the trainer have not run; the other components are idle.
InitPipe ==
    /\ \/ raw = Absent
       \/ \E n \in 1..MaxRows : \E f \in [1..n -> RawRows] : raw = File(f)
    /\ lpc = "start"
    /\ df = <<>>
    /\ loadErr = "none"
    /\ processed = Absent
    /\ tpc = "start"
    /\ trainErr = "none"
    /\ fitCalled = FALSE
    /\ fitCols = <<>>
    /\ trained = Absent
    /\ feature_names = <<>>
    /\ features = <<>>
    /\ modelProba = 0
    /\ spc = "idle"
    /\ predictCalled = FALSE
    /\ Xpassed = <<>>
    /\ response = ErrResponse("none")
    /\ opc = "idle"
    /\ ostep = 1
    /\ started = <<>>
    /\ exits = <<>>
    /\ ret = 0
    /\ bundle = NoBundle
    /\ writer = 0
    /\ dumps = 0
    /\ reqs = <<>>
    /\ env = [url |-> <<>>, sha |-> <<>>]
    /\ dest = NoFile
    /\ part = NoFile
    /\ runs = <<>>
    /\ removed = 0

\* a bundle is on disk and one request has arrived; the other components are idle.
InitScore ==
    /\ raw = Absent
    /\ lpc = "idle"
    /\ df = <<>>
    /\ loadErr = "none"
    /\ processed = Absent
    /\ tpc = "idle"
    /\ trainErr = "none"
    /\ fitCalled = FALSE
    /\ fitCols = <<>>
    /\ trained = Absent
    /\ feature_names \in PersistedLists
    /\ features \in Requests
    /\ modelProba \in Probas
    /\ spc = "received"
    /\ predictCalled = FALSE
    /\ Xpassed = <<>>
    /\ response = ErrResponse("none")
    /\ opc = "idle"
    /\ ostep = 1
    /\ started = <<>>
    /\ exits = <<>>
    /\ ret = 0
    /\ bundle = NoBundle
    /\ writer = 0
    /\ dumps = 0
    /\ reqs = <<>>
    /\ env = [url |-> <<>>, sha |-> <<>>]
    /\ dest = NoFile
    /\ part = NoFile
    /\ runs = <<>>
    /\ removed = 0

\* train_all.main is about to run its first step; the other components are idle.
InitOrch ==
    /\ raw = Absent
    /\ lpc = "idle"
    /\ df = <<>>
    /\ loadErr = "none"
    /\ processed = Absent
    /\ tpc = "idle"
    /\ trainErr = "none"
    /\ fitCalled = FALSE
    /\ fitCols = <<>>
    /\ trained = Absent
    /\ feature_names = <<>>
    /\ features = <<>>
    /\ modelProba = 0
    /\ spc = "idle"
    /\ predictCalled = FALSE
    /\ Xpassed = <<>>
    /\ response = ErrResponse("none")
    /\ opc = "run"
    /\ ostep = 1
    /\ started = <<>>
    /\ exits = <<>>
    /\ ret = 0
    /\ bundle = NoBundle
    /\ writer = 0
    /\ dumps = 0
    /\ reqs = <<>>
    /\ env = [url |-> <<>>, sha |-> <<>>]
    /\ dest = NoFile
    /\ part = NoFile
    /\ runs = <<>>
    /\ removed = 0

\* no bundle on disk, every request yet to arrive; the other components are idle.
InitServe ==
    /\ raw = Absent
    /\ lpc = "idle"
    /\ df = <<>>
    /\ loadErr = "none"
    /\ processed = Absent
    /\ tpc = "idle"
    /\ trainErr = "none"
    /\ fitCalled = FALSE
    /\ fitCols = <<>>
    /\ trained = Absent
    /\ feature_names = <<>>
    /\ features = <<>>
    /\ modelProba = 0
    /\ spc = "idle"
    /\ predictCalled = FALSE
    /\ Xpassed = <<>>
    /\ response = ErrResponse("none")
    /\ opc = "idle"
    /\ ostep = 1
    /\ started = <<>>
    /\ exits = <<>>
    /\ ret = 0
    /\ bundle = NoBundle
    /\ writer = 0
    /\ dumps = 0
    /\ reqs = [r \in 1..MaxRequests |-> NewRequest]
    /\ env = [url |-> <<>>, sha |-> <<>>]
    /\ dest = NoFile
    /\ part = NoFile
    /\ runs = <<>>
    /\ removed = 0

\* the environment is set and the destination is absent or left by earlier use; the other components are idle.
InitDownload ==
    /\ raw = Absent
    /\ lpc = "idle"
    /\ df = <<>>
    /\ loadErr = "none"
    /\ processed = Absent
    /\ tpc = "idle"
    /\ trainErr = "none"
    /\ fitCalled = FALSE
    /\ fitCols = <<>>
    /\ trained = Absent
    /\ feature_names = <<>>
    /\ features = <<>>
    /\ modelProba = 0
    /\ spc = "idle"
    /\ predictCalled = FALSE
    /\ Xpassed = <<>>
    /\ response = ErrResponse("none")
    /\ opc = "idle"
    /\ ostep = 1
    /\ started = <<>>
    /\ exits = <<>>
    /\ ret = 0
    /\ bundle = NoBundle
    /\ writer = 0
    /\ dumps = 0
    /\ reqs = <<>>
    /\ env \in [url : UrlValues, sha : ShaValues]
    /\ dest \in {NoFile, Regular("dataset"), Regular("corrupt"), Directory}
    /\ part = NoFile
    /\ runs = <<>>
    /\ removed = 0

PipeNext == LoaderMain \/ TrainerMain

SpecPipe == InitPipe /\ [][PipeNext]_vars

ScoreNext == Score

SpecScore == InitScore /\ [][ScoreNext]_vars

OrchNext == StartStep \/ StepExits

SpecOrch == InitOrch /\ [][OrchNext]_vars

ServeNext ==
    \/ DumpStart
    \/ DumpFinish
    \/ DeleteBundle
    \/ \E r \in 1..MaxRequests : ReqCheck(r)
    \/ \E r \in 1..MaxRequests : ReqLoad(r)

SpecServe == InitServe /\ [][ServeNext]_vars

DownloadNext == DownloadMain \/ RemoveFile

SpecDownload == InitDownload /\ [][DownloadNext]_vars

(***************************************************************************)
(* Properties of the loader.                                               *)
(***************************************************************************)
RawRowCount == Len(raw.data)

DateParses(i) == ToDatetime(raw.data[i].issue_d).ok

\* C1: whenever load_and_normalize returns a table, every row of it (and of
\* the table written to train.parquet) has a target that is exactly 0 or 1.
C1_TargetBinary ==
    lpc = "saved" =>
        /\ \A k \in 1..Len(df) : df[k].target \in {0, 1}
        /\ \A v \in {TargetOf(processed.data)[k] : k \in 1..Len(df)} : v \in {0, 1}

C1_Witness ==
    /\ lpc = "saved"
    /\ \E k \in 1..Len(df) : df[k].target = 1
    /\ \E k \in 1..Len(df) : df[k].target = 0

\* C2: in the normalized table, a raw row whose issue date parses appears
\* with target 1 exactly when its status is in the bad set, with target 0
\* exactly when its status is in the good set, and does not appear at all
\* when its status is in neither set.
C2_ThreeWayLookup ==
    lpc = "saved" =>
        \A i \in 1..RawRowCount :
            DateParses(i) =>
                LET st == raw.data[i].loan_status
                    appears == \E k \in 1..Len(df) : df[k].src = i
                    appearsWith(t) == \E k \in 1..Len(df) : df[k].src = i /\ df[k].target = t
                    once == Cardinality({k \in 1..Len(df) : df[k].src = i}) <= 1
                IN  /\ appearsWith(1) <=> st \in bad_statuses
                    /\ appearsWith(0) <=> st \in good_statuses
                    /\ st \notin (bad_statuses \cup good_statuses) => ~appears
                    /\ once

C2_Witness ==
    /\ lpc = "saved"
    /\ \E i, j \in 1..RawRowCount :
          /\ DateParses(i) /\ raw.data[i].loan_status \in {"Current", ""}
          /\ DateParses(j) /\ raw.data[j].loan_status \in bad_statuses
          /\ \E k \in 1..Len(df) : df[k].src = j /\ df[k].target = 1
          /\ ~\E k \in 1..Len(df) : df[k].src = i

RawParseRateLow ==
    /\ raw.exists
    /\ 100 * Cardinality({i \in 1..RawRowCount : DateParses(i)}) < 95 * RawRowCount

ValueErrors == {"ValueError:read_csv", "ValueError:parse_rate"}

\* C7: when fewer than 95% of the raw rows' issue dates parse, the loader
\* ends with a ValueError and train.parquet is not written.
C7_LowParseRateAborts ==
    (RawParseRateLow /\ lpc # "start") =>
        /\ loadErr \in ValueErrors
        /\ ~processed.exists

\* What the percent clean-up is documented to give for a raw cell.
ExpectedPercent(cell) ==
    IF Render(cell) \in {"", "nan"} THEN NaNVal ELSE ParseFloatText(StripPercent(cell))

\* C8: a percent string in int_rate or revol_util is normalized to its
\* number, an empty or "nan" cell to missing, and the loader does not fail
\* on such cells.
C8_PercentNormalized ==
    (raw.exists /\ lpc # "start") =>
        /\ loadErr # "ValueError:read_csv"
        /\ \A k \in 1..Len(df) :
              /\ df[k].int_rate = ExpectedPercent(raw.data[df[k].src].int_rate)
              /\ df[k].revol_util = ExpectedPercent(raw.data[df[k].src].revol_util)

NumericDtypes == {"int64", "float64", "float32", "bool"}

\* C9: when the trainer runs on the table the loader wrote and reaches fit,
\* every column handed to fit is numeric or an indicator, and the trainer
\* goes on to persist the model.
C9_FitColumnsNumeric ==
    (lpc = "saved" /\ fitCalled) =>
        /\ \A i \in 1..Len(fitCols) : fitCols[i].dtype \in NumericDtypes
        /\ tpc = "persisted"
        /\ trained.exists

(***************************************************************************)
(* Properties of the scoring handler.                                      *)
(***************************************************************************)
\* C3: the decision is a total three-way function of the probability p:
\* approve exactly when p < 0.03, review exactly when 0.03 <= p < 0.08,
\* reject exactly when p >= 0.08; the response carries p itself.
C3_DecisionPolicy ==
    (spc = "responded" /\ response.status = 200) =>
        /\ response.pd = modelProba
        /\ response.decision \in {"approve", "review", "reject"}
        /\ (response.decision = "approve") <=> (modelProba < 30)
        /\ (response.decision = "review") <=> (30 <= modelProba /\ modelProba < 80)
        /\ (response.decision = "reject") <=> (modelProba >= 80)

C3_Witness ==
    /\ spc = "responded"
    /\ response.status = 200
    /\ modelProba = 30
    /\ response.decision = "review"

\* The value the encoded input holds for a persisted feature (0 if absent).
EncodedValue(frame, f) ==
    IF HasColumn(frame, f) THEN ColumnsNamed(frame, f)[1].vals[1] ELSE 0

\* C4: the frame handed to predict_proba has exactly the persisted
\* feature_names as its columns, in that order; a persisted feature absent
\* from the encoded input holds 0.
C4_ReindexLaw ==
    (spc = "responded" /\ predictCalled) =>
        /\ ColumnNames(Xpassed) = feature_names
        /\ \A i \in 1..Len(feature_names) :
              ~HasColumn(get_dummies(DataFrameOfRecord(features)), feature_names[i])
                  => Xpassed[i].vals[1] = 0

\* The trainer's encoding of the same record, read at a persisted feature.
TrainValue(rec, f) == EncodedValue(TrainEncode(DataFrameOfRecord(rec)), f)

\* C5: in every persisted feature column the scorer places the value the
\* trainer's encoding (get_dummies, sanitize_feature_names, duplicate
\* columns dropped) gives that column for the same record.
C5_SameEncodingAsTraining ==
    (spc = "responded" /\ predictCalled /\ ColumnNames(Xpassed) = feature_names) =>
        \A i \in 1..Len(feature_names) :
            Xpassed[i].vals[1] = TrainValue(features, feature_names[i])

(***************************************************************************)
(* Properties of the orchestrator.                                         *)
(***************************************************************************)
\* C6: the steps start in the order ingestion, quality report, training,
\* each only after the previous one exited 0; after a non-zero exit no
\* later step starts and main returns that exit code; main returns 0 only
\* if all three steps ran and exited 0.
C6_SequentialAbortOnFailure ==
    /\ Len(started) <= 3
    /\ \A i \in 1..Len(started) :
          started[i] = <<"load_lendingclub", "data_quality", "train_lgbm">>[i]
    /\ \A i \in 2..Len(started) : Len(exits) >= i - 1 /\ exits[i - 1] = 0
    /\ \A i \in 1..Len(exits) : exits[i] # 0 => Len(started) = i
    /\ \A i \in 1..Len(exits) : exits[i] # 0 => (opc = "returned" /\ ret = exits[i])
    /\ (opc = "returned" /\ ret = 0) =>
          (Len(started) = 3 /\ Len(exits) = 3 /\ \A i \in 1..3 : exits[i] = 0)

C6_Witness ==
    /\ opc = "returned"
    /\ Len(exits) = 2
    /\ exits[2] < 0
    /\ ret = exits[2]
    /\ Len(started) = 2

(***************************************************************************)
(* Properties of the service under changes of the bundle file.             *)
(***************************************************************************)
Done(r) == reqs[r].pc = "done"

ToldToTrain(r) == reqs[r].status = 500 /\ reqs[r].detail = Remediation

\* The file was missing at a moment the request looked for it.
MissingWhenRead(r) == ~reqs[r].existsAtCheck \/ ~reqs[r].atLoad.exists

ShaConfigured == \E k \in 1..Len(env.sha) : env.sha[k] # " "

\* The file hashes to the configured digest, hex digits compared by value.
HashesToExpected(f) ==
    /\ f.kind = "file"
    /\ LowerText(sha256_file(f)) = LowerText(StripSpaces(env.sha))

\* C11: with an expected SHA-256 configured, a run returns 0 only if the
\* destination file hashes to the expected value; a mismatch right after a
\* download returns 5; a mismatch on a file already present returns 3
\* without downloading and without changing the file; after a run that
\* returned 5, no later run returns 0 while the file has not been removed.
C11_ZeroOnlyOnMatchingHash ==
    ShaConfigured =>
        \A i \in 1..Len(runs) :
            /\ runs[i].code = 0 => HashesToExpected(runs[i].after)
            /\ (runs[i].fetched /\ ~HashesToExpected(runs[i].after))
                   => runs[i].code = 5
            /\ (runs[i].before.kind = "file" /\ ~HashesToExpected(runs[i].before)
                  /\ StripSpaces(env.url) # <<>>)
                   => /\ runs[i].code = 3
                      /\ ~runs[i].fetched
                      /\ runs[i].after = runs[i].before
            /\ \A j \in (i + 1)..Len(runs) :
                   (runs[i].code = 5 /\ runs[j].removals = runs[i].removals)
                       => /\ runs[j].code # 0
                          /\ runs[j].after = runs[i].after

C11_Witness ==
    /\ ShaConfigured
    /\ Len(runs) = 3
    /\ runs[1].code = 5 /\ runs[1].fetched
    /\ runs[2].code = 3 /\ runs[2].removals = runs[1].removals
    /\ runs[3].code = 0 /\ runs[3].fetched /\ runs[3].removals > runs[2].removals

====
